---------------------------- MODULE Spec2Model ----------------------------
(***************************************************************************)
(* A model of the build script of LenixDev/builder (src/index.ts):        *)
(* discovery of the .js files of a resource tree, the per-file build,     *)
(* and the rewriting of the manifest and of the HTML files.               *)
(*                                                                         *)
(* Strings are sequences of one-character strings, so that suffix tests,  *)
(* path arithmetic and regular-expression matching are computed character *)
(* by character, as the code computes them.                                *)
(***************************************************************************)
EXTENDS Naturals, Sequences, FiniteSets

VARIABLES
    fs,          \* the files on disk: absolute path -> text
    dirs,        \* directories created by mkdirSync (they may be empty)
    rev,         \* the order in which readdirSync reports entries
    fault,       \* environment: script path -> the step at which its build throws
    pc,          \* main's position
    jsFiles,     \* main: const jsFiles
    i,           \* main: position of the for..of loop in jsFiles
    builtFiles,  \* main: const builtFiles
    htmlFiles,   \* updateHtmlFiles: const htmlFiles
    j,           \* updateHtmlFiles: position of htmlFiles.forEach
    log,         \* history: the calls made so far, in order
    fs0          \* history: the files on disk when main started

vars == <<fs, dirs, rev, fault, pc, jsFiles, i, builtFiles, htmlFiles, j, log, fs0>>

-----------------------------------------------------------------------------
(* Strings *)

StartsWith(s, p) == Len(s) >= Len(p) /\ SubSeq(s, 1, Len(p)) = p

EndsWith(s, p) == Len(s) >= Len(p) /\ SubSeq(s, Len(s) - Len(p) + 1, Len(s)) = p

Includes(list, x) == \E k \in 1..Len(list) : list[k] = x

Reverse(s) == [k \in 1..Len(s) |-> s[Len(s) + 1 - k]]

RECURSIVE Flatten(_)
Flatten(ss) == IF ss = <<>> THEN <<>> ELSE Head(ss) \o Flatten(Tail(ss))

\* s.replace(/\\/g, '/')
BackslashToSlash(s) == [k \in 1..Len(s) |-> IF s[k] = "\\" THEN "/" ELSE s[k]]

-----------------------------------------------------------------------------
(* Program constants *)

\* the directory of the script, which is the project root
dirname == <<"/","r">>

IGNORE_FILE_PATHS ==
    << <<"b","u","i","l","d",".","t","s">>,
       <<"b","u","i","l","d",".","j","s">>,
       <<"c","l","i","e","n","t","/","b","r","i","d","g","e",".","j","s">> >>

IGNORE_DIRS ==
    << <<"n","o","d","e","_","m","o","d","u","l","e","s">>,
       <<"b","u","i","l","d">> >>

MANIFEST_FILE == <<"f","x","m","a","n","i","f","e","s","t",".","l","u","a">>

-----------------------------------------------------------------------------
(* Node's path module, POSIX flavour *)

\* the segments of a path: the non-empty pieces between slashes
RECURSIVE SplitFrom(_, _, _)
SplitFrom(p, k, cur) ==
    IF k > Len(p) THEN (IF cur = <<>> THEN <<>> ELSE <<cur>>)
    ELSE IF p[k] = "/"
         THEN (IF cur = <<>> THEN <<>> ELSE <<cur>>) \o SplitFrom(p, k + 1, <<>>)
         ELSE SplitFrom(p, k + 1, Append(cur, p[k]))

SplitPath(p) == SplitFrom(p, 1, <<>>)

RECURSIVE JoinSegs(_)
JoinSegs(segs) ==
    IF segs = <<>> THEN <<>>
    ELSE IF Len(segs) = 1 THEN segs[1]
    ELSE segs[1] \o <<"/">> \o JoinSegs(Tail(segs))

IsAbsolute(p) == Len(p) > 0 /\ p[1] = "/"

\* "." is dropped and ".." removes the segment before it
RECURSIVE ResolveSegs(_, _)
ResolveSegs(segs, acc) ==
    IF segs = <<>> THEN acc
    ELSE IF Head(segs) = <<".">> THEN ResolveSegs(Tail(segs), acc)
    ELSE IF Head(segs) = <<".", ".">> /\ acc # <<>> /\ acc[Len(acc)] # <<".", ".">>
         THEN ResolveSegs(Tail(segs), SubSeq(acc, 1, Len(acc) - 1))
    ELSE ResolveSegs(Tail(segs), Append(acc, Head(segs)))

PathNormalize(p) ==
    LET segs == ResolveSegs(SplitPath(p), <<>>)
    IN  IF IsAbsolute(p) THEN <<"/">> \o JoinSegs(segs)
        ELSE IF segs = <<>> THEN <<".">> ELSE JoinSegs(segs)

\* path.join(a, b)
PathJoin(a, b) == PathNormalize(a \o <<"/">> \o b)

\* path.dirname(p)
PathDirname(p) ==
    LET segs == SplitPath(p)
    IN  IF Len(segs) <= 1
        THEN (IF IsAbsolute(p) THEN <<"/">> ELSE <<".">>)
        ELSE (IF IsAbsolute(p) THEN <<"/">> ELSE <<>>)
             \o JoinSegs(SubSeq(segs, 1, Len(segs) - 1))

\* path.basename(p)
PathBasename(p) ==
    LET segs == SplitPath(p)
    IN  IF segs = <<>> THEN <<>> ELSE segs[Len(segs)]

RECURSIVE CommonLen(_, _)
CommonLen(a, b) ==
    IF a = <<>> \/ b = <<>> \/ Head(a) # Head(b) THEN 0
    ELSE 1 + CommonLen(Tail(a), Tail(b))

\* path.relative(from, to), both absolute
PathRelative(from, to) ==
    LET f == ResolveSegs(SplitPath(from), <<>>)
        t == ResolveSegs(SplitPath(to), <<>>)
        c == CommonLen(f, t)
    IN  JoinSegs([k \in 1..(Len(f) - c) |-> <<".", ".">>] \o SubSeq(t, c + 1, Len(t)))

-----------------------------------------------------------------------------
(* The file system *)

\* the names of the files and directories of the trees
n_main == <<"m","a","i","n",".","j","s">>
n_script == <<"s","c","r","i","p","t",".","j","s">>
n_bridge == <<"b","r","i","d","g","e",".","j","s">>
n_buildjs == <<"b","u","i","l","d",".","j","s">>
n_buildts == <<"b","u","i","l","d",".","t","s">>
n_dotmain == <<".","m","a","i","n",".","j","s">>
n_index == <<"i","n","d","e","x",".","h","t","m","l">>
n_web == <<"w","e","b">>
n_client == <<"c","l","i","e","n","t">>
n_build == <<"b","u","i","l","d">>
n_modules == <<"n","o","d","e","_","m","o","d","u","l","e","s">>
n_git == <<".","g","i","t">>
n_libjs == <<"l","i","b",".","j","s">>

\* every name a directory entry can have, in the order readdirSync reports
\* entries (reversed when rev holds)
EntryOrder ==
    << n_git, n_dotmain, n_build, n_buildjs, n_buildts, n_client, n_bridge,
       MANIFEST_FILE, n_index, n_libjs, n_main, n_modules, n_script, n_web >>

\* what lies directly or indirectly under directory dir
Below(dir) == {q \in (DOMAIN fs) \cup dirs : StartsWith(q, dir \o <<"/">>)}

\* fs.statSync(p).isDirectory()
IsDirectory(p) == p \in dirs \/ Below(p) # {}

\* fs.existsSync(p)
existsSync(p) == p \in DOMAIN fs \/ IsDirectory(p)

\* fs.readdirSync(dir)
readdirSync(dir) ==
    LET names == {SplitPath(SubSeq(q, Len(dir) + 2, Len(q)))[1] : q \in Below(dir)}
        IsEntry(n) == n \in names
    IN  SelectSeq(IF rev THEN Reverse(EntryOrder) ELSE EntryOrder, IsEntry)

-----------------------------------------------------------------------------
(* File discovery *)

\* a variant that matches an ignored path as a suffix of the relative path
shouldIgnoreFileBySuffix(filePath) ==
    LET relativePath == BackslashToSlash(PathRelative(dirname, filePath))
    IN  \E k \in 1..Len(IGNORE_FILE_PATHS) :
            EndsWith(relativePath, BackslashToSlash(IGNORE_FILE_PATHS[k]))

shouldIgnoreFile(filePath) ==
    LET relativePath == BackslashToSlash(PathRelative(dirname, filePath))
    IN  \E k \in 1..Len(IGNORE_FILE_PATHS) :
            relativePath = BackslashToSlash(IGNORE_FILE_PATHS[k])

RECURSIVE findJsFiles(_, _)
RECURSIVE findJsEach(_, _, _, _)

\* the body of files.forEach in findJsFiles, from entry k on
findJsEach(dir, files, k, fileList) ==
    IF k > Len(files) THEN fileList
    ELSE LET file == files[k]
             filePath == PathJoin(dir, file)
             next ==
                 IF IsDirectory(filePath)
                 THEN IF ~StartsWith(file, <<".">>) /\ ~Includes(IGNORE_DIRS, file)
                      THEN findJsFiles(filePath, fileList)
                      ELSE fileList
                 ELSE IF EndsWith(file, <<".","j","s">>) /\ ~shouldIgnoreFile(filePath)
                      THEN Append(fileList, filePath)
                      ELSE fileList
         IN  findJsEach(dir, files, k + 1, next)

findJsFiles(dir, fileList) == findJsEach(dir, readdirSync(dir), 1, fileList)

RECURSIVE findHtmlFiles(_, _)
RECURSIVE findHtmlEach(_, _, _, _)

\* the body of files.forEach in findHtmlFiles, from entry k on
findHtmlEach(dir, files, k, fileList) ==
    IF k > Len(files) THEN fileList
    ELSE LET file == files[k]
             filePath == PathJoin(dir, file)
             next ==
                 IF IsDirectory(filePath)
                 THEN IF ~StartsWith(file, <<".">>) /\ ~Includes(IGNORE_DIRS, file)
                      THEN findHtmlFiles(filePath, fileList)
                      ELSE fileList
                 ELSE IF EndsWith(file, <<".","h","t","m","l">>)
                      THEN Append(fileList, filePath)
                      ELSE fileList
         IN  findHtmlEach(dir, files, k + 1, next)

findHtmlFiles(dir, fileList) == findHtmlEach(dir, readdirSync(dir), 1, fileList)

-----------------------------------------------------------------------------
(* Regular expressions and String.prototype.replace *)

RegExpSpecials == {".", "*", "+", "?", "^", "$", "{", "}", "(", ")", "|", "[", "]", "\\"}

\* s.replace(/[.*+?^${}()|[\]\\]/g, '\\$&')
EscapeRegExp(s) ==
    Flatten([k \in 1..Len(s) |->
                IF s[k] \in RegExpSpecials THEN <<"\\", s[k]>> ELSE <<s[k]>>])

\* the position of the first "]" of source at or after k (0: none)
RECURSIVE ClassEnd(_, _)
ClassEnd(source, k) ==
    IF k > Len(source) THEN 0
    ELSE IF source[k] = "]" THEN k
    ELSE ClassEnd(source, k + 1)

\* new RegExp(source, 'g') for the sources this program builds: a sequence
\* of one-character atoms, each an escaped character, a character class, a
\* dot or a literal
RECURSIVE NewRegExpFrom(_, _)
NewRegExpFrom(source, k) ==
    IF k > Len(source) THEN <<>>
    ELSE IF source[k] = "\\" /\ k < Len(source)
         THEN <<[any |-> FALSE, chars |-> {source[k + 1]}]>> \o NewRegExpFrom(source, k + 2)
    ELSE IF source[k] = "[" /\ ClassEnd(source, k) > 0
         THEN <<[any |-> FALSE,
                 chars |-> {source[n] : n \in (k + 1)..(ClassEnd(source, k) - 1)}]>>
              \o NewRegExpFrom(source, ClassEnd(source, k) + 1)
    ELSE IF source[k] = "."
         THEN <<[any |-> TRUE, chars |-> {}]>> \o NewRegExpFrom(source, k + 1)
    ELSE <<[any |-> FALSE, chars |-> {source[k]}]>> \o NewRegExpFrom(source, k + 1)

NewRegExp(source) == NewRegExpFrom(source, 1)

AtomMatches(atom, c) == IF atom.any THEN c # "\n" ELSE c \in atom.chars

MatchesAt(regex, text, p) ==
    /\ p + Len(regex) - 1 <= Len(text)
    /\ \A k \in 1..Len(regex) : AtomMatches(regex[k], text[p + k - 1])

\* regex.test(text), from lastIndex 0
RegExpTest(regex, text) == \E p \in 1..Len(text) : MatchesAt(regex, text, p)

\* text.replace(regex, replacement) for a global regex: the matches are taken
\* from left to right and never overlap.  The replacement strings of this
\* program are a quote, an attribute name and a path of the tree; the paths
\* of the model contain no "$", so a replacement is inserted as it stands.
RECURSIVE ReplaceFrom(_, _, _, _)
ReplaceFrom(text, regex, replacement, p) ==
    IF p > Len(text) THEN <<>>
    ELSE IF MatchesAt(regex, text, p)
         THEN replacement \o ReplaceFrom(text, regex, replacement, p + Len(regex))
         ELSE <<text[p]>> \o ReplaceFrom(text, regex, replacement, p + 1)

\* a variant for a regex without the g flag: only the first match is replaced
RECURSIVE ReplaceFirstFrom(_, _, _, _)
ReplaceFirstFrom(text, regex, replacement, p) ==
    IF p > Len(text) THEN <<>>
    ELSE IF MatchesAt(regex, text, p)
         THEN replacement \o SubSeq(text, p + Len(regex), Len(text))
         ELSE <<text[p]>> \o ReplaceFirstFrom(text, regex, replacement, p + 1)

StringReplaceFirst(text, regex, replacement) == ReplaceFirstFrom(text, regex, replacement, 1)

StringReplace(text, regex, replacement) == ReplaceFrom(text, regex, replacement, 1)

-----------------------------------------------------------------------------
(* The transform pipeline *)

\* the external minifier and obfuscator, as opaque transformations
Minify(code) == <<"m">> \o code

Obfuscate(code) == <<"o">> \o code

BuildSteps == {"read", "minify", "obfuscate", "mkdir", "write", "none"}

\* a variant with one build directory at the project root
BuildDirAtRoot(filePath) == PathJoin(dirname, <<"b","u","i","l","d">>)

\* buildFile: const buildDir
BuildDirOf(filePath) == PathJoin(PathDirname(filePath), <<"b","u","i","l","d">>)

\* buildFile: const outputPath
OutputPathOf(filePath) == PathJoin(BuildDirOf(filePath), PathBasename(filePath))

\* buildFile(filePath): the BuildResult (none when an error was caught) and
\* the disk it leaves
buildFile(filePath) ==
    LET buildDir == BuildDirOf(filePath)
        outputPath == OutputPathOf(filePath)
        step == fault[filePath]
        \* the steps before mkdirSync; mkdirSync is called only when the
        \* build directory does not exist
        early == \/ step \in {"read", "minify", "obfuscate"}
                 \/ filePath \notin DOMAIN fs
                 \/ step = "mkdir" /\ ~existsSync(buildDir)
        madeDirs == IF existsSync(buildDir) THEN dirs ELSE dirs \cup {buildDir}
    IN  IF early
        THEN [result |-> <<>>, fs |-> fs, dirs |-> dirs]
        ELSE IF step = "write"
        THEN [result |-> <<>>, fs |-> fs, dirs |-> madeDirs]
        ELSE [result |->
                  <<[originalPath |-> BackslashToSlash(PathRelative(dirname, filePath)),
                     builtPath |-> BackslashToSlash(PathRelative(dirname, outputPath))]>>,
              fs |-> [q \in (DOMAIN fs) \cup {outputPath} |->
                         IF q = outputPath THEN Obfuscate(Minify(fs[filePath])) ELSE fs[q]],
              dirs |-> madeDirs]

-----------------------------------------------------------------------------
(* The reference rewriter: manifest *)

QuoteClass == <<"[", "'", "\"", "]">>

\* a variant whose pattern has no opening quote
RECURSIVE manifestEachUnanchored(_, _, _)
manifestEachUnanchored(manifestContent, built, k) ==
    IF k > Len(built) THEN manifestContent
    ELSE LET escapedOriginal == EscapeRegExp(built[k].originalPath)
             regex == NewRegExp(escapedOriginal \o QuoteClass)
         IN  manifestEachUnanchored(
                 StringReplace(manifestContent, regex,
                               built[k].builtPath \o <<"'">>),
                 built, k + 1)

\* the body of builtFiles.forEach in updateManifest, from mapping k on
RECURSIVE manifestEach(_, _, _)
manifestEach(manifestContent, built, k) ==
    IF k > Len(built) THEN manifestContent
    ELSE LET escapedOriginal == EscapeRegExp(built[k].originalPath)
             regex == NewRegExp(QuoteClass \o escapedOriginal \o QuoteClass)
         IN  manifestEach(
                 StringReplace(manifestContent, regex,
                               <<"'">> \o built[k].builtPath \o <<"'">>),
                 built, k + 1)

ManifestPath == PathJoin(dirname, MANIFEST_FILE)

\* a variant without the existsSync test: a missing manifest is created
updateManifestCreating(built) ==
    [q \in (DOMAIN fs) \cup {ManifestPath} |->
        IF q = ManifestPath
        THEN manifestEach(IF q \in DOMAIN fs THEN fs[q] ELSE <<>>, built, 1)
        ELSE fs[q]]

\* updateManifest(builtFiles): the disk it leaves
updateManifest(built) ==
    IF ~existsSync(ManifestPath) THEN fs
    ELSE [fs EXCEPT ![ManifestPath] = manifestEach(fs[ManifestPath], built, 1)]

-----------------------------------------------------------------------------
(* The reference rewriter: HTML *)

\* one attribute of one entry of pathsToTry: test, then replace
htmlAttr(state, attr, original, built) ==
    LET regex == NewRegExp(attr \o <<"[", "\"", "'", "]">> \o EscapeRegExp(original)
                           \o <<"[", "\"", "'", "]">>)
    IN  IF RegExpTest(regex, state.htmlContent)
        THEN [htmlContent |-> StringReplace(state.htmlContent, regex,
                                            attr \o <<"\"">> \o built \o <<"\"">>),
              updated |-> TRUE]
        ELSE state

\* the body of pathsToTry.forEach: the src attribute, then the href attribute
htmlTry(state, original, built) ==
    htmlAttr(htmlAttr(state, <<"s","r","c","=">>, original, built),
             <<"h","r","e","f","=">>, original, built)

\* a variant that computes the relative built path from the original path
RECURSIVE htmlEachSamePath(_, _, _, _)
htmlEachSamePath(state, htmlDir, built, k) ==
    IF k > Len(built) THEN state
    ELSE LET originalPath == built[k].originalPath
             builtPath == built[k].builtPath
             absoluteOriginalPath == PathJoin(dirname, originalPath)
             relativeOriginalPath ==
                 BackslashToSlash(PathRelative(htmlDir, absoluteOriginalPath))
             relativeBuiltPath ==
                 BackslashToSlash(PathRelative(htmlDir, absoluteOriginalPath))
         IN  htmlEachSamePath(
                 htmlTry(htmlTry(state, originalPath, builtPath),
                         relativeOriginalPath, relativeBuiltPath),
                 htmlDir, built, k + 1)

\* the body of builtFiles.forEach in updateHtmlFiles, from mapping k on
RECURSIVE htmlEach(_, _, _, _)
htmlEach(state, htmlDir, built, k) ==
    IF k > Len(built) THEN state
    ELSE LET originalPath == built[k].originalPath
             builtPath == built[k].builtPath
             absoluteOriginalPath == PathJoin(dirname, originalPath)
             absoluteBuiltPath == PathJoin(dirname, builtPath)
             relativeOriginalPath ==
                 BackslashToSlash(PathRelative(htmlDir, absoluteOriginalPath))
             relativeBuiltPath ==
                 BackslashToSlash(PathRelative(htmlDir, absoluteBuiltPath))
         IN  htmlEach(
                 htmlTry(htmlTry(state, originalPath, builtPath),
                         relativeOriginalPath, relativeBuiltPath),
                 htmlDir, built, k + 1)

\* the body of htmlFiles.forEach: the text of one HTML file after the
\* substitutions, and whether any was made
updateHtmlFile(htmlPath, htmlContent, built) ==
    htmlEach([htmlContent |-> htmlContent, updated |-> FALSE],
             PathDirname(htmlPath), built, 1)

-----------------------------------------------------------------------------
(* main, one step at a time *)

Event(op, file, ok) == [op |-> op, file |-> file, ok |-> ok]

\* const jsFiles = findJsFiles(__dirname), and the return when it is empty
FindJs ==
    /\ pc = "main"
    /\ jsFiles' = findJsFiles(dirname, <<>>)
    /\ pc' = IF jsFiles' = <<>> THEN "done" ELSE "build"
    /\ UNCHANGED <<fs, dirs, rev, fault, i, builtFiles, htmlFiles, j, log, fs0>>

\* a variant in which an error of buildFile is not caught and ends the run
BuildAborting ==
    /\ pc = "build"
    /\ LET file == jsFiles[i]
           r == buildFile(file)
       IN  /\ fs' = r.fs
           /\ dirs' = r.dirs
           /\ builtFiles' = builtFiles \o r.result
           /\ log' = Append(log, Event("buildFile", file, r.result # <<>>))
           /\ i' = i + 1
           /\ pc' = IF r.result = <<>> THEN "done"
                    ELSE IF i' <= Len(jsFiles) THEN "build"
                    ELSE "updateManifest"
    /\ UNCHANGED <<rev, fault, jsFiles, htmlFiles, j, fs0>>

\* a variant without the test of builtFiles.length after the loop
BuildAlwaysRewrites ==
    /\ pc = "build"
    /\ LET file == jsFiles[i]
           r == buildFile(file)
       IN  /\ fs' = r.fs
           /\ dirs' = r.dirs
           /\ builtFiles' = builtFiles \o r.result
           /\ log' = Append(log, Event("buildFile", file, r.result # <<>>))
    /\ i' = i + 1
    /\ pc' = IF i' <= Len(jsFiles) THEN "build" ELSE "updateManifest"
    /\ UNCHANGED <<rev, fault, jsFiles, htmlFiles, j, fs0>>

\* one round of the for..of loop: await buildFile(file) and the push; after
\* the last round, the test of builtFiles.length
Build ==
    /\ pc = "build"
    /\ LET file == jsFiles[i]
           r == buildFile(file)
       IN  /\ fs' = r.fs
           /\ dirs' = r.dirs
           /\ builtFiles' = builtFiles \o r.result
           /\ log' = Append(log, Event("buildFile", file, r.result # <<>>))
    /\ i' = i + 1
    /\ pc' = IF i' <= Len(jsFiles) THEN "build"
             ELSE IF Len(builtFiles') > 0 THEN "updateManifest" ELSE "done"
    /\ UNCHANGED <<rev, fault, jsFiles, htmlFiles, j, fs0>>

\* updateManifest(builtFiles)
UpdateManifest ==
    /\ pc = "updateManifest"
    /\ fs' = updateManifest(builtFiles)
    /\ log' = Append(log, Event("updateManifest", ManifestPath, existsSync(ManifestPath)))
    /\ pc' = "updateHtmlFiles"
    /\ UNCHANGED <<dirs, rev, fault, jsFiles, i, builtFiles, htmlFiles, j, fs0>>

\* updateHtmlFiles: const htmlFiles = findHtmlFiles(__dirname), and the
\* return when it is empty
FindHtml ==
    /\ pc = "updateHtmlFiles"
    /\ htmlFiles' = findHtmlFiles(dirname, <<>>)
    /\ j' = 1
    /\ pc' = IF htmlFiles' = <<>> THEN "done" ELSE "htmlFile"
    /\ UNCHANGED <<fs, dirs, rev, fault, jsFiles, i, builtFiles, log, fs0>>

\* updateHtmlFiles: one round of htmlFiles.forEach
HtmlFile ==
    /\ pc = "htmlFile"
    /\ LET htmlPath == htmlFiles[j]
           r == updateHtmlFile(htmlPath, fs[htmlPath], builtFiles)
       IN  /\ fs' = IF r.updated THEN [fs EXCEPT ![htmlPath] = r.htmlContent] ELSE fs
           /\ log' = log \o <<Event("readHtml", htmlPath, TRUE)>>
                         \o (IF r.updated THEN <<Event("writeHtml", htmlPath, TRUE)>>
                             ELSE <<>>)
    /\ j' = j + 1
    /\ pc' = IF j' <= Len(htmlFiles) THEN "htmlFile" ELSE "done"
    /\ UNCHANGED <<dirs, rev, fault, jsFiles, i, builtFiles, htmlFiles, fs0>>

Next == FindJs \/ Build \/ UpdateManifest \/ FindHtml \/ HtmlFile

-----------------------------------------------------------------------------
(* The trees main is run on *)

Path(segs) == JoinSegs(segs)

Abs(rel) == dirname \o <<"/">> \o rel

\* the text of a source file, by its suffix
SourceText(rel) ==
    IF EndsWith(rel, <<".","j","s">>) THEN <<"j">>
    ELSE IF EndsWith(rel, <<".","h","t","m","l">>)
         THEN <<"s","r","c","=","\"">> \o n_main \o <<"\"">>
    ELSE <<"t">>

\* a disk holding the files rels, the manifest with text manifest[1] when
\* manifest is not empty, and the texts html of some of its HTML files
Disk(rels, manifest, html) ==
    LET paths == {Abs(rel) : rel \in rels}
                 \cup (IF manifest = <<>> THEN {} ELSE {ManifestPath})
    IN  [q \in paths |->
            IF q = ManifestPath THEN manifest[1]
            ELSE IF q \in DOMAIN html THEN html[q]
            ELSE SourceText(q)]

Scripts(disk) == {q \in DOMAIN disk : EndsWith(q, <<".","j","s">>)}

NoFault(disk) == [q \in Scripts(disk) |-> "none"]

NoHtml == [q \in {} |-> <<>>]

\* main starts on disk d, with build faults f and directory order r
Start(d, f, r) ==
    /\ fs = d
    /\ fs0 = d
    /\ dirs = {}
    /\ fault = f
    /\ rev = r
    /\ pc = "main"
    /\ jsFiles = <<>>
    /\ i = 1
    /\ builtFiles = <<>>
    /\ htmlFiles = <<>>
    /\ j = 1
    /\ log = <<>>

\* the subsets of S with at most n elements
RECURSIVE UpTo(_, _)
UpTo(S, n) ==
    IF n = 0 THEN {{}}
    ELSE LET smaller == UpTo(S, n - 1)
         IN  smaller \cup {T \cup {x} : T \in smaller, x \in S}

\* the concatenations of at most n of the pieces
Texts(pieces, n) ==
    {Flatten(t) : t \in UNION {[1..m -> pieces] : m \in 0..n}}

-----------------------------------------------------------------------------
(* Runs of main: the orchestration, with builds that fail *)

MaxScripts == 2

MainScripts == {n_main, Path(<<n_web, n_script>>), Path(<<n_web, n_main>>)}

MainHtml == {{}, {n_index}, {Path(<<n_web, n_index>>)}}

\* 'main.js','web/script.js'
MainManifest ==
    <<"'">> \o n_main \o <<"'", ",", "'">> \o Path(<<n_web, n_script>>) \o <<"'">>

Init ==
    \E js \in UpTo(MainScripts, MaxScripts), h \in MainHtml,
       m \in {<<>>, <<MainManifest>>}, r \in BOOLEAN :
        LET d == Disk(js \cup h, m, NoHtml)
        IN  \E f \in [Scripts(d) -> BuildSteps] : Start(d, f, r)

Spec == Init /\ [][Next]_vars

-----------------------------------------------------------------------------
(* Runs of main: discovery over many trees *)

MaxTreeFiles == 4

TreeFiles ==
    { n_main,
      Path(<<n_web, n_script>>),
      Path(<<n_client, n_bridge>>),
      Path(<<n_web, n_client, n_bridge>>),
      n_buildjs,
      Path(<<n_web, n_buildjs>>),
      Path(<<n_build, n_main>>),
      Path(<<n_web, n_build, n_script>>),
      Path(<<n_modules, n_main>>),
      Path(<<n_git, n_main>>),
      Path(<<n_web, n_git, n_script>>),
      n_buildts,
      n_dotmain,
      Path(<<n_libjs, n_main>>),
      n_index,
      Path(<<n_web, n_index>>),
      Path(<<n_build, n_index>>) }

InitDiscovery ==
    \E rels \in UpTo(TreeFiles, MaxTreeFiles), r \in BOOLEAN :
        LET d == Disk(rels, <<MainManifest>>, NoHtml)
        IN  Start(d, NoFault(d), r)

SpecDiscovery == InitDiscovery /\ [][Next]_vars

-----------------------------------------------------------------------------
(* Runs of main: many manifest texts *)

MaxPieces == 4

ManifestScripts == {n_main, Path(<<n_web, n_main>>)}

ManifestPieces ==
    {<<"'">>, <<"\"">>, <<",">>, <<"'">> \o n_main \o <<"'">>} \cup ManifestScripts

InitManifest ==
    \E t \in Texts(ManifestPieces, MaxPieces), r \in BOOLEAN :
        LET d == Disk(ManifestScripts \cup {n_index}, <<t>>, NoHtml)
        IN  Start(d, NoFault(d), r)

SpecManifest == InitManifest /\ [][Next]_vars

-----------------------------------------------------------------------------
(* Runs of main: many HTML texts *)

MaxAttrs == 2

HtmlScripts == {n_main, n_script, Path(<<n_web, n_script>>)}

\* the root-relative paths of main.js and web/script.js, and their paths
\* relative to web
HtmlValues ==
    {n_main, Path(<<n_web, n_script>>), n_script, <<".", ".", "/">> \o n_main}

\* one attribute: src or href with a value between double quotes, src with
\* a value between single quotes, or one of them under a longer name
\* (data-src, data-href)
HtmlAttrs ==
    { attr \o <<"\"">> \o value \o <<"\"", " ">> :
        attr \in {<<"s","r","c","=">>, <<"h","r","e","f","=">>}, value \in HtmlValues }
    \cup
    { <<"s","r","c","=","'">> \o value \o <<"'", " ">> : value \in {n_main, n_script} }
    \cup
    { <<"d","a","t","a","-","s","r","c","=","\"">> \o n_main \o <<"\"", " ">>,
      <<"d","a","t","a","-","h","r","e","f","=","\"">> \o n_script \o <<"\"", " ">> }

InitHtml ==
    \E t \in Texts(HtmlAttrs, MaxAttrs), r \in BOOLEAN,
       h \in {n_index, Path(<<n_web, n_index>>)} :
        LET d == Disk(HtmlScripts \cup {h}, <<MainManifest>>, [q \in {Abs(h)} |-> t])
        IN  Start(d, NoFault(d), r)

SpecHtml == InitHtml /\ [][Next]_vars

-----------------------------------------------------------------------------
(* Vocabulary of the properties *)

\* the path of q relative to the project root, q being under it
RelOf(q) == SubSeq(q, Len(dirname) + 2, Len(q))

\* rel with a build directory inserted before the file name
InsertBuild(rel) ==
    LET segs == SplitPath(rel)
    IN  JoinSegs(SubSeq(segs, 1, Len(segs) - 1) \o <<n_build>> \o <<segs[Len(segs)]>>)

\* the events of the log with an operation among ops
EventsOf(ops) == LET Is(e) == e.op \in ops IN SelectSeq(log, Is)

FilesOf(events) == [k \in 1..Len(events) |-> events[k].file]

\* the scripts buildFile has been called on, in call order
Called == FilesOf(EventsOf({"buildFile"}))

\* the build of script q wrote its output
Written(q) == OutputPathOf(q) \in DOMAIN fs

\* the BuildResults of the called scripts whose output was written
Successes ==
    LET done == SelectSeq(Called, Written)
    IN  [k \in 1..Len(done) |->
            [originalPath |-> RelOf(done[k]), builtPath |-> RelOf(OutputPathOf(done[k]))]]

AfterBuilds == pc \notin {"main", "build"}

AfterManifest == pc \in {"updateHtmlFiles", "htmlFile", "done"} /\ Len(builtFiles) > 0

\* the HTML files of the initial disk that lie in no pruned directory
HtmlOnDisk ==
    {q \in DOMAIN fs0 :
        /\ EndsWith(q, <<".","h","t","m","l">>)
        /\ LET segs == SplitPath(RelOf(q))
           IN  \A k \in 1..(Len(segs) - 1) :
                   ~StartsWith(segs[k], <<".">>) /\ ~Includes(IGNORE_DIRS, segs[k])}

-----------------------------------------------------------------------------
(* C1 *)

\* C1: whichever builds fail, buildFile is called on every discovered script
\* in discovery order, builtFiles is exactly the BuildResults of the scripts
\* whose build succeeded, in that order, and the manifest and the HTML files
\* are rewritten with these mappings only.
C1_BuiltFilesAreTheSuccesses ==
    /\ Called = SubSeq(jsFiles, 1, Len(Called))
    /\ AfterBuilds => Called = jsFiles
    /\ builtFiles = Successes
    /\ \A k \in 1..Len(log) :
           log[k].op = "buildFile" => (log[k].ok <=> Written(log[k].file))
    /\ (pc = "done" /\ ManifestPath \in DOMAIN fs0 /\ Len(builtFiles) > 0)
           => fs[ManifestPath] = manifestEach(fs0[ManifestPath], Successes, 1)
    /\ pc = "done" /\ Len(builtFiles) > 0
           => \A h \in HtmlOnDisk :
                  fs[h] = updateHtmlFile(h, fs0[h], Successes).htmlContent

\* a run in which a script fails and a later script is built
C1_Witness ==
    /\ pc = "done"
    /\ \E a, b \in 1..Len(jsFiles) :
           a < b /\ ~Written(jsFiles[a]) /\ Written(jsFiles[b])
    /\ Len(builtFiles) = 1

-----------------------------------------------------------------------------
(* C2 *)

\* C2: the manifest and the HTML files are touched only after buildFile has
\* returned for every discovered script; updateManifest returns before any
\* HTML file is read or written; and a run with no script, or with no
\* successful build, changes no file of the initial disk and ends.
C2_StepsAreOrdered ==
    /\ \A k \in 1..Len(log) :
           log[k].op \in {"updateManifest", "readHtml", "writeHtml"}
               => /\ k > Len(jsFiles)
                  /\ FilesOf(SubSeq(log, 1, Len(jsFiles))) = jsFiles
                  /\ \A n \in 1..Len(jsFiles) : log[n].op = "buildFile"
    /\ \A k \in 1..Len(log) :
           log[k].op \in {"readHtml", "writeHtml"}
               => \E n \in 1..(k - 1) : log[n].op = "updateManifest"
    /\ (ManifestPath \in DOMAIN fs0 /\ fs[ManifestPath] # fs0[ManifestPath])
           => AfterManifest
    /\ (\E h \in HtmlOnDisk : fs[h] # fs0[h]) => AfterManifest
    /\ (pc # "main" /\ jsFiles = <<>>) => pc = "done" /\ fs = fs0 /\ log = <<>>
    /\ (AfterBuilds /\ builtFiles = <<>>)
           => /\ pc = "done"
              /\ \A q \in DOMAIN fs0 : q \in DOMAIN fs /\ fs[q] = fs0[q]
              /\ EventsOf({"updateManifest", "readHtml", "writeHtml"}) = <<>>

\* a run that builds two scripts, then rewrites the manifest, then an HTML file
C2_Witness ==
    /\ pc = "done"
    /\ Len(builtFiles) = 2
    /\ \E k \in 1..Len(log) : log[k].op = "updateManifest" /\ log[k].ok
    /\ \E k \in 1..Len(log) : log[k].op = "writeHtml"

-----------------------------------------------------------------------------
(* C3 *)

\* the scripts C3 describes: the .js files of the initial disk under no
\* hidden or ignored directory whose root-relative path is no ignored file
Discoverable ==
    {q \in DOMAIN fs0 :
        /\ EndsWith(q, <<".","j","s">>)
        /\ LET segs == SplitPath(RelOf(q))
           IN  \A k \in 1..(Len(segs) - 1) :
                   ~StartsWith(segs[k], <<".">>) /\ ~Includes(IGNORE_DIRS, segs[k])
        /\ ~Includes(IGNORE_FILE_PATHS, RelOf(q))}

\* C3: findJsFiles returns each discoverable script exactly once and
\* nothing else.
C3_DiscoveryIsExact ==
    pc # "main" =>
        /\ {jsFiles[k] : k \in 1..Len(jsFiles)} = Discoverable
        /\ \A a, b \in 1..Len(jsFiles) : jsFiles[a] = jsFiles[b] => a = b

\* client/bridge.js at the root is skipped while web/client/bridge.js is
\* returned
C3_Witness ==
    /\ pc # "main"
    /\ Abs(Path(<<n_client, n_bridge>>)) \in DOMAIN fs0
    /\ Includes(jsFiles, Abs(Path(<<n_web, n_client, n_bridge>>)))
    /\ Len(jsFiles) = 1

-----------------------------------------------------------------------------
(* C4 *)

-----------------------------------------------------------------------------
(* C5 *)

\* C5: as in the README example, web/script.js is built to
\* build/web/script.js and main.js to build/main.js.
C5_ReadmeExample ==
    \A k \in 1..Len(builtFiles) :
        /\ builtFiles[k].originalPath = Path(<<n_web, n_script>>)
               => /\ builtFiles[k].builtPath = Path(<<n_build, n_web, n_script>>)
                  /\ Abs(Path(<<n_build, n_web, n_script>>)) \in DOMAIN fs
        /\ builtFiles[k].originalPath = n_main
               => builtFiles[k].builtPath = Path(<<n_build, n_main>>)

-----------------------------------------------------------------------------
(* C6 *)

QuoteChars == {"'", "\""}

\* the positions of text at which path stands between two quote characters
Quoted(text, path) ==
    {p \in 1..Len(text) :
        /\ p + Len(path) + 1 <= Len(text)
        /\ text[p] \in QuoteChars
        /\ SubSeq(text, p + 1, p + Len(path)) = path
        /\ text[p + Len(path) + 1] \in QuoteChars}

\* the positions of text at which path stands between two single quotes
SingleQuoted(text, path) ==
    {p \in Quoted(text, path) : text[p] = "'" /\ text[p + Len(path) + 1] = "'"}

\* no quote character of text closes one quoted occurrence of path and opens
\* the next
NoSharedQuote(text, path) ==
    \A p \in Quoted(text, path) : (p + Len(path) + 1) \notin Quoted(text, path)

\* after updateManifest: no original path is left between quotes, and each
\* quoted occurrence has become the built path between single quotes
ManifestRewritten ==
    \A k \in 1..Len(builtFiles) :
        /\ Quoted(fs[ManifestPath], builtFiles[k].originalPath) = {}
        /\ Cardinality(SingleQuoted(fs[ManifestPath], builtFiles[k].builtPath))
             = Cardinality(Quoted(fs0[ManifestPath], builtFiles[k].originalPath))
               + Cardinality(SingleQuoted(fs0[ManifestPath], builtFiles[k].builtPath))

\* C6, as claimed: for every manifest text, after updateManifest no quoted
\* original path remains and every quoted occurrence has been replaced.
C6_NoOriginalRemains ==
    (AfterManifest /\ ManifestPath \in DOMAIN fs0) => ManifestRewritten

\* C6, amended: the same for every manifest text in which no two quoted
\* occurrences of one original path share a quote character.
C6_NoOriginalRemainsUnlessShared ==
    (/\ AfterManifest
     /\ ManifestPath \in DOMAIN fs0
     /\ \A k \in 1..Len(builtFiles) :
            NoSharedQuote(fs0[ManifestPath], builtFiles[k].originalPath))
        => ManifestRewritten

\* a manifest with two separate quoted occurrences of main.js and one of
\* web/main.js has been rewritten
C6_Witness ==
    /\ pc = "done"
    /\ Len(builtFiles) = 2
    /\ \A k \in 1..2 : NoSharedQuote(fs0[ManifestPath], builtFiles[k].originalPath)
    /\ Cardinality(Quoted(fs0[ManifestPath], n_main)) = 2
    /\ Cardinality(Quoted(fs0[ManifestPath], Path(<<n_web, n_main>>))) = 1
    /\ ManifestRewritten

-----------------------------------------------------------------------------
(* C9 *)

\* the orders in which the mappings of built can be applied
Orders(built) ==
    {[k \in 1..Len(built) |-> built[f[k]]] :
        f \in {g \in [1..Len(built) -> 1..Len(built)] :
                  \A a, b \in 1..Len(built) : g[a] = g[b] => a = b}}

MainMapping == [originalPath |-> n_main, builtPath |-> Path(<<n_build, n_main>>)]

WebMainMapping ==
    [originalPath |-> Path(<<n_web, n_main>>),
     builtPath |-> Path(<<n_web, n_build, n_main>>)]

\* s occurs in t
IsSubstring(s, t) == \E p \in 1..Len(t) : StartsWith(SubSeq(t, p, Len(t)), s)

\* the BuildResult of script q
MappingOf(q) == [originalPath |-> RelOf(q), builtPath |-> RelOf(OutputPathOf(q))]

-----------------------------------------------------------------------------
(* C7 *)

-----------------------------------------------------------------------------
(* C10 *)

\* the positions of text at which the attribute name stands
NameAt(text, name) ==
    {p \in 1..Len(text) :
        p + Len(name) - 1 <= Len(text) /\ SubSeq(text, p, p + Len(name) - 1) = name}

\* every src= and href= of text is the end of a longer attribute name
OnlyPrefixedAttrs(text) ==
    \A p \in NameAt(text, <<"s","r","c","=">>) \cup NameAt(text, <<"h","r","e","f","=">>) :
        p > 1 /\ text[p - 1] = "-"

\* C10: an HTML file whose only attributes are neither src nor href (such as
\* data-src) is left byte for byte as it was.
C10_OnlySrcAndHref ==
    \A h \in HtmlOnDisk :
        OnlyPrefixedAttrs(fs0[h]) => (h \in DOMAIN fs /\ fs[h] = fs0[h])

-----------------------------------------------------------------------------
(* C8 *)

\* C8: when the manifest does not exist, updateManifest writes nothing and
\* does not create it, and main goes on: every HTML file is read and
\* rewritten with all of builtFiles, and the run ends.
C8_MissingManifest ==
    ManifestPath \notin DOMAIN fs0 =>
        /\ ~existsSync(ManifestPath)
        /\ \A k \in 1..Len(log) : log[k].op = "updateManifest" => ~log[k].ok
        /\ EventsOf({"updateManifest"}) # <<>> => AfterManifest
        /\ (AfterManifest /\ pc # "updateHtmlFiles")
               => {htmlFiles[k] : k \in 1..Len(htmlFiles)} = HtmlOnDisk
        /\ (pc = "done" /\ Len(builtFiles) > 0)
               => /\ \A h \in HtmlOnDisk :
                         /\ \E k \in 1..Len(log) : log[k] = Event("readHtml", h, TRUE)
                         /\ fs[h] = updateHtmlFile(h, fs0[h], Successes).htmlContent
                  /\ EventsOf({"updateManifest"}) = <<Event("updateManifest", ManifestPath, FALSE)>>

\* a run without manifest that built a script and rewrote an HTML file
C8_Witness ==
    /\ pc = "done"
    /\ ManifestPath \notin DOMAIN fs0
    /\ Len(builtFiles) > 0
    /\ \E h \in HtmlOnDisk : fs[h] # fs0[h]

=============================================================================
